---- MODULE Spec2Model ----
(***************************************************************************)
(* A model of three helpers of the crawler:                                *)
(*   - HttpEquivEncodingMiddleware.process_response                        *)
(*       (scrapy/downloadermiddlewares/httpequivencoding.py)               *)
(*   - _get_form / _get_inputs / _get_clickable (scrapy/http/request/form.py)*)
(*   - curl_to_request_kwargs (scrapy/utils/curl.py)                       *)
(* Each helper is one call: Init draws the arguments, one action runs the  *)
(* whole function body, pc goes from "call" to "done".                     *)
(***************************************************************************)
EXTENDS Integers, Sequences, FiniteSets

VARIABLES
    pc,          \* "call" before the function runs, "done" after it returned or raised
    raised,      \* the exception the call ended with, "" when it returned
    response,    \* process_response: the response object (mutable)
    returned,    \* process_response: the object id of the value returned
    form,        \* _get_inputs: the form's descendants, in document order
    formdata,    \* _get_inputs: the formdata argument
    dont_click,  \* _get_inputs: the dont_click argument
    clickdata,   \* _get_inputs: the clickdata argument
    values,      \* _get_inputs: the list returned
    doc,         \* _get_form: the nodes of the parsed document, in document order
    formname,    \* _get_form: the formname argument
    formid,      \* _get_form: the formid argument
    formnumber,  \* _get_form: the formnumber argument, <<>> for None
    formxpath,   \* _get_form: the formxpath argument and the nodes it selects
    found,       \* _get_form: the node returned, 0 for None
    consulted,   \* _get_form: the arguments the call evaluated, in order
    curl_args,   \* curl_to_request_kwargs: the tokens of the command
    ignore_unknown_options,  \* curl_to_request_kwargs: the flag
    result       \* curl_to_request_kwargs: the dict returned

mwVars == <<response, returned>>
inVars == <<form, formdata, dont_click, clickdata, values>>
gfVars == <<doc, formname, formid, formnumber, formxpath, found, consulted>>
curlVars == <<curl_args, ignore_unknown_options, result>>
vars == <<pc, raised, mwVars, inVars, gfVars, curlVars>>

\* Python's None where a string is expected.
None == "<None>"

-----------------------------------------------------------------------------
(* HttpEquivEncodingMiddleware                                             *)

\* The charset labels that headers, bodies and callers use.
Labels == {"utf-8", "utf8", "windows-1252", "utf-16"}

\* The codec a label denotes (windows-1252 is cp1252, utf8 is utf-8).
resolve_encoding(label) ==
    CASE label = "windows-1252" -> "cp1252"
      [] label = "utf8" -> "utf-8"
      [] OTHER -> label

\* How the body declares its charset:
\*   "closed"   <meta http-equiv="Content-Type" content="text/html; charset=X" />
\*   "open"     <meta http-equiv="Content-Type" content="text/html; charset=X">
\*   "charset"  <meta charset="X">
\*   "none"     no declaration
MetaForms == {"closed", "open", "charset", "none"}

Classes == {"Response", "TextResponse", "HtmlResponse"}

\* isinstance(response, TextResponse): HtmlResponse is a subclass of TextResponse.
IsTextResponse(r) == r.cls \in {"TextResponse", "HtmlResponse"}

\* isinstance(response, HtmlResponse), line 19.
IsHtmlResponse(r) == r.cls = "HtmlResponse"

\* The charset of the Content-Type header, resolved, or None.
headers_encoding(r) ==
    IF r.header = None THEN None ELSE resolve_encoding(r.header)

\* The charset the document itself declares (any of the three forms), resolved, or None.
body_declared_encoding(r) ==
    IF r.meta = "none" THEN None ELSE resolve_encoding(r.charset)

\* TextResponse.encoding: the stored _encoding first, then the header, then the body,
\* then the fallback inferred from the bytes.
encoding(r) ==
    IF r._encoding # None THEN r._encoding
    ELSE IF headers_encoding(r) # None THEN headers_encoding(r)
    ELSE IF body_declared_encoding(r) # None THEN body_declared_encoding(r)
    ELSE "utf-8"

\* Lines 23-30: after removing spaces and comments the body is searched for
\* <metahttp-equiv=["']Content-Type["'].*charset[^>)]*?/> and, inside the match, for
\* charset=[^;"']+ . The pattern ends with "/>", so only the self-closed http-equiv
\* form matches; the value is the label as written (bytes 8.. of the match, decoded).
meta_charset(r) ==
    IF r.meta = "closed" THEN r.charset ELSE None

\* process_response, lines 17-35; the result is <<response after the call, returned id>>.
process_response(r) ==
    IF ~IsHtmlResponse(r) THEN <<r, r.oid>>
    ELSE IF meta_charset(r) # None
         THEN <<[r EXCEPT !._encoding = meta_charset(r)], r.oid>>
         ELSE <<r, r.oid>>

\* The responses a call can be given. encoding_arg is the constructor's encoding
\* argument (only textual responses take one); _encoding starts as that argument.
Responses ==
    { [oid |-> 1, cls |-> c, encoding_arg |-> e, _encoding |-> e,
       header |-> h, meta |-> m, charset |-> cs] :
        c \in Classes, e \in Labels \cup {None}, h \in Labels \cup {None},
        m \in MetaForms, cs \in Labels }

NoResponse ==
    [oid |-> 0, cls |-> "Response", encoding_arg |-> None, _encoding |-> None,
     header |-> None, meta |-> "none", charset |-> "utf-8"]

IdleMw == response = NoResponse /\ returned = 0

IdleIn ==
    /\ form = <<>>
    /\ formdata = [kind |-> "none", items |-> <<>>]
    /\ dont_click = TRUE
    /\ clickdata = [is_none |-> TRUE, nr |-> <<>>, attrs |-> {}]
    /\ values = <<>>

NoXpath == [is_none |-> TRUE, nodes |-> <<>>]

IdleGf ==
    /\ doc = <<>>
    /\ formname = None
    /\ formid = None
    /\ formnumber = <<>>
    /\ formxpath = NoXpath
    /\ found = 0
    /\ consulted = <<>>

\* The dict curl_to_request_kwargs returns; a key that is left out holds Absent.
Absent == "<absent>"
NoResult ==
    [method |-> Absent, url |-> Absent, headers |-> <<>>, cookies |-> <<>>,
     body |-> Absent]

IdleCurl ==
    /\ curl_args = <<>>
    /\ ignore_unknown_options = TRUE
    /\ result = NoResult

InitMw ==
    /\ pc = "call"
    /\ raised = ""
    /\ response \in { r \in Responses :
                        /\ (r.cls = "Response" => r.encoding_arg = None)
                        /\ (r.meta = "none" => r.charset = "utf-8") }
    /\ returned = 0
    /\ IdleIn
    /\ IdleGf
    /\ IdleCurl

ProcessResponse ==
    /\ pc = "call"
    /\ response # NoResponse
    /\ response' = process_response(response)[1]
    /\ returned' = process_response(response)[2]
    /\ pc' = "done"
    /\ UNCHANGED <<raised, inVars, gfVars, curlVars>>

NextMw == ProcessResponse

SpecMw == InitMw /\ [][NextMw]_vars

\* The header and the document both declare a charset and the two denote different codecs.
Disagree(r) ==
    /\ headers_encoding(r) # None
    /\ body_declared_encoding(r) # None
    /\ headers_encoding(r) # body_declared_encoding(r)

\* C1: a textual response constructed with an explicit encoding keeps that encoding
\* through process_response, whatever the header and the meta declaration say, and the
\* object returned is the one passed in.
C1_ExplicitEncodingKept ==
    (pc = "done" /\ IsTextResponse(response) /\ response.encoding_arg # None)
        => /\ response._encoding = response.encoding_arg
           /\ encoding(response) = response.encoding_arg
           /\ returned = response.oid

\* C2: for a textual response without an explicit encoding whose header charset and
\* document-declared charset are both present and denote different codecs, the response
\* process_response produces has the document-declared codec as its encoding.
C2_BodyEncodingObeyed ==
    (pc = "done" /\ IsTextResponse(response) /\ response.encoding_arg = None
        /\ Disagree(response))
        => resolve_encoding(encoding(response)) = body_declared_encoding(response)

\* C3: process_response returns the object it was given and leaves its stored encoding
\* as it was whenever the response is not textual, or the header charset is absent, or
\* the document declares none, or the two denote the same codec.
C3_NoOpWhenNothingToReconcile ==
    (pc = "done" /\ ~(IsTextResponse(response) /\ Disagree(response)))
        => /\ response._encoding = response.encoding_arg
           /\ returned = response.oid


-----------------------------------------------------------------------------
(* FormRequest.from_response: _get_inputs, _value, _select_value, _get_clickable *)

\* Python values that are a string, a list of strings or None (field values).
PyNone == [t |-> "None", s |-> "", l |-> <<>>]
Str(x) == [t |-> "str", s |-> x, l |-> <<>>]
List(x) == [t |-> "list", s |-> "", l |-> x]
\* lxml's MultipleSelectOptions, the value of a <select multiple>: an object, never None.
MultipleSelectOptions == [t |-> "options", s |-> "", l |-> <<>>]

\* The case-insensitive flag of re:test, on the type values used here.
Lower(x) == IF x = "Submit" THEN "submit" ELSE x

\* str.strip(), on the strings used here.
Strip(x) ==
    CASE x = " x" -> "x"
      [] x = " t" -> "t"
      [] OTHER -> x

\* re:test(@type, "^(...)$", "i"): an absent attribute matches nothing.
TypeIs(e, S) == e.type # None /\ Lower(e.type) \in S

\* An element of the form: its tag and its type, name and value attributes (None when
\* absent), its text, whether it carries checked / multiple, and a select's options.
El(tag, type, name, value) ==
    [tag |-> tag, type |-> type, name |-> name, value |-> value, text |-> None,
     checked |-> FALSE, multiple |-> FALSE, options |-> <<>>]

\* The xpath of lines 165-172: textarea, select, and input that is not
\* submit/image/reset and, when checkbox/radio, is checked.
IsInput(e) ==
    \/ e.tag = "textarea"
    \/ e.tag = "select"
    \/ /\ e.tag = "input"
       /\ \/ e.type = None
          \/ /\ ~TypeIs(e, {"submit", "image", "reset"})
             /\ (e.checked \/ ~TypeIs(e, {"checkbox", "radio"}))

\* The xpath of lines 218-222: input of type submit/image, button without type or of
\* type submit.
IsClickable(e) ==
    \/ e.tag = "input" /\ TypeIs(e, {"submit", "image"})
    \/ e.tag = "button" /\ (e.type = None \/ TypeIs(e, {"submit"}))

\* lxml's form.inputs (line 240): every select, input and textarea of the form.
IsFormInput(e) == e.tag \in {"select", "input", "textarea"}

\* Python's list[nr]: positions -len .. len-1 exist, anything else is an IndexError.
HasIndex(s, nr) == -Len(s) <= nr /\ nr < Len(s)
Index(s, nr) == IF nr >= 0 THEN s[nr + 1] ELSE s[Len(s) + nr + 1]

\* lxml's value_options of a select (line 202): each option's value attribute, or its
\* stripped text when the option has no value attribute.
OptionValue(o) ==
    IF o.value # None THEN o.value ELSE Strip(IF o.text = None THEN "" ELSE o.text)

value_options(e) == [i \in 1..Len(e.options) |-> OptionValue(e.options[i])]

\* ele.xpath('.//option[@selected]'), line 207.
IsSelected(o) == o.selected
selected_options(e) == SelectSeq(e.options, IsSelected)

\* ele.value of a single select (lxml): the value of the last option marked selected,
\* else of the first option that is not disabled, else None.
IsEnabled(o) == ~o.disabled
SingleSelectValue(e) ==
    LET sel == selected_options(e)
        en == SelectSeq(e.options, IsEnabled)
    IN  IF sel # <<>> THEN Str(OptionValue(sel[Len(sel)]))
        ELSE IF en # <<>> THEN Str(OptionValue(en[1]))
        ELSE PyNone

\* ele.value (line 191), lxml: a checkbox/radio gives its value (or 'on') when checked
\* and None otherwise, a textarea its text, any other input its value attribute.
ele_value(e) ==
    IF e.tag = "select"
    THEN (IF e.multiple THEN MultipleSelectOptions ELSE SingleSelectValue(e))
    ELSE IF e.tag = "textarea" THEN Str(IF e.text = None THEN "" ELSE e.text)
    ELSE IF TypeIs(e, {"checkbox", "radio"})
    THEN (IF e.checked THEN Str(IF e.value \in {None, ""} THEN "on" ELSE e.value)
          ELSE PyNone)
    ELSE IF e.value = None THEN PyNone ELSE Str(e.value)

\* (o.get('value') or o.text or '').strip(), line 208.
SelectedOptionValue(o) ==
    Strip(IF o.value \notin {None, ""} THEN o.value
          ELSE IF o.text \notin {None, ""} THEN o.text
          ELSE "")

\* _select_value, lines 197-209: the pair <<name, value>>.
_select_value(ele, n, v) ==
    LET multiple == ele.multiple
        o == value_options(ele)
        sel == selected_options(ele)
    IN  IF v.t = "None" /\ ~multiple
        THEN (IF o # <<>> THEN <<n, Str(o[1])>> ELSE <<None, PyNone>>)
        ELSE IF v.t # "None" /\ multiple
        THEN <<n, List([i \in 1..Len(sel) |-> SelectedOptionValue(sel[i])])>>
        ELSE <<n, v>>

\* _value, lines 189-194.
_value(ele) ==
    LET n == ele.name
        v == ele_value(ele)
    IN  IF ele.tag = "select" THEN _select_value(ele, n, v) ELSE <<n, v>>

\* f'{v}' of an integer, on the click numbers used here.
IntStr(n) ==
    CASE n = 0 -> "0"
      [] n = 1 -> "1"
      [] n = -1 -> "-1"
      [] OTHER -> "7"

\* An option as a node of the tree.
OptionEl(o) ==
    [tag |-> "option", type |-> None, name |-> None, value |-> o.value, text |-> o.text,
     checked |-> FALSE, multiple |-> FALSE, options |-> <<>>]

\* './/*' (line 248): every descendant of the form, the options of a select included.
RECURSIVE Descendants(_)
Descendants(f) ==
    IF f = <<>> THEN <<>>
    ELSE <<Head(f)>>
         \o [i \in 1..Len(Head(f).options) |-> OptionEl(Head(f).options[i])]
         \o Descendants(Tail(f))

\* The attribute k of an element, None when absent. Elements carry no other attributes
\* (none has an attribute called nr).
Attr(e, k) ==
    CASE k = "name" -> e.name
      [] k = "type" -> e.type
      [] k = "value" -> e.value
      [] OTHER -> None

\* clickdata.items() (line 248): every key of clickdata, 'nr' included.
ClickItems(cd) ==
    cd.attrs \cup (IF cd.nr = <<>> THEN {} ELSE {<<"nr", IntStr(cd.nr[1])>>})

\* The predicates [@k="v"] joined for every item of clickdata.
Matches(e, cd) ==
    \A p \in ClickItems(cd) : Attr(e, p[1]) # None /\ Attr(e, p[1]) = p[2]

\* (el.get('name'), el.get('value') or ''), lines 231, 244, 251.
ClickEntry(el) ==
    [kind |-> "el", k |-> el.name,
     v |-> IF el.value = None THEN "" ELSE el.value]

\* _get_clickable, lines 212-256: kind "none" for the bare return of line 225, "el" for
\* a (name, value) pair, "ValueError" for the raises of lines 253 and 256.
_get_clickable(cd, f) ==
    LET clickables == SelectSeq(f, IsClickable)
        inputs == SelectSeq(f, IsFormInput)
        Test(e) == Matches(e, cd)
        el == SelectSeq(Descendants(f), Test)
    IN  IF clickables = <<>> THEN [kind |-> "none", k |-> None, v |-> ""]
        ELSE IF cd.is_none THEN ClickEntry(clickables[1])
        ELSE IF cd.nr # <<>> /\ HasIndex(inputs, cd.nr[1])
        THEN ClickEntry(Index(inputs, cd.nr[1]))
        ELSE IF Len(el) = 1 THEN ClickEntry(el[1])
        ELSE [kind |-> "ValueError", k |-> None, v |-> ""]

\* formdata_keys = dict(formdata or ()).keys(), line 159.
formdata_keys(fd) == { fd.items[i][1] : i \in DOMAIN fd.items }

\* clickable[0] in formdata (line 179): on a dict the test is on the keys; on a list of
\* (name, value) tuples the name is compared with the tuples and equals none of them;
\* formdata None or empty has become () by line 164.
InFormdata(name, fd) ==
    IF fd.kind = "dict" THEN name \in formdata_keys(fd) ELSE FALSE

\* Lines 173-175: the (k, '' if v is None else v) of every selected element whose name is
\* non-empty and not a key of formdata. Entries carry the step that emitted them.
RECURSIVE AutoValues(_, _)
AutoValues(inputs, keys) ==
    IF inputs = <<>> THEN <<>>
    ELSE LET kv == _value(Head(inputs))
             k == kv[1]
             v == kv[2]
         IN  (IF k # None /\ k # "" /\ k \notin keys
              THEN <<[k |-> k, v |-> IF v.t = "None" THEN Str("") ELSE v, src |-> "input"]>>
              ELSE <<>>)
             \o AutoValues(Tail(inputs), keys)

\* Line 185 had it iterated the dict built at line 159 instead of formdata itself: a
\* name that occurs twice would be emitted once.
RECURSIVE FormdataValuesByKey(_)
FormdataValuesByKey(items) ==
    IF items = <<>> THEN <<>>
    ELSE LET Other(p) == p[1] # Head(items)[1]
         IN  (IF Head(items)[2].t # "None"
              THEN <<[k |-> Head(items)[1], v |-> Head(items)[2], src |-> "formdata"]>>
              ELSE <<>>)
             \o FormdataValuesByKey(SelectSeq(Tail(items), Other))

\* Line 185: values.extend((k, v) for k, v in formdata if v is not None).
RECURSIVE FormdataValues(_)
FormdataValues(items) ==
    IF items = <<>> THEN <<>>
    ELSE (IF Head(items)[2].t # "None"
          THEN <<[k |-> Head(items)[1], v |-> Head(items)[2], src |-> "formdata"]>>
          ELSE <<>>)
         \o FormdataValues(Tail(items))

\* Lines 177-180: the clickable entry, appended when there is one, its name is not in
\* formdata and its name is not None.
ClickValues(clickable, fd) ==
    IF clickable.kind = "el" /\ ~InFormdata(clickable.k, fd) /\ clickable.k # None
    THEN <<[k |-> clickable.k, v |-> Str(clickable.v), src |-> "clickable"]>>
    ELSE <<>>

\* _get_inputs, lines 157-186: what the call raises ("" when it returns) and the list.
_get_inputs(f, fd, dc, cd) ==
    LET inputs == SelectSeq(f, IsInput)
        auto == AutoValues(inputs, formdata_keys(fd))
        clickable == IF dc THEN [kind |-> "none", k |-> None, v |-> ""]
                     ELSE _get_clickable(cd, f)
    IN  IF clickable.kind = "ValueError"
        THEN [raised |-> "ValueError", values |-> <<>>]
        ELSE [raised |-> "",
              values |-> auto \o ClickValues(clickable, fd) \o FormdataValues(fd.items)]

\* Bounds of the forms and arguments explored.
MaxElems == 2
MaxFormdata == 2

\* Sequences over S of length at most n.
BSeq(S, n) == UNION { [1..m -> S] : m \in 0..n }

\* The elements forms are built from: text inputs with a name, an empty name; an
\* unchecked checkbox; submit inputs with a name, an empty name; a button without a name
\* attribute; a reset input; a textarea.
Elems ==
    { El("input", None, "a", "v"),
      El("input", None, "", "v"),
      El("input", "checkbox", "a", None),
      El("input", "submit", "go", "1"),
      El("input", "Submit", "", "1"),
      El("button", None, None, None),
      El("input", "reset", "go", None),
      El("textarea", None, "a", None) }

\* The (name, value) pairs formdata is built from.
FormItems ==
    { <<"a", Str("x")>>, <<"a", PyNone>>, <<"go", Str("x")>>, <<"", Str("x")>> }

DistinctKeys(items) ==
    \A i, j \in DOMAIN items : i # j => items[i][1] # items[j][1]

\* formdata: None, a list of pairs, or a dict (keys distinct, in insertion order).
Formdatas ==
    {[kind |-> "none", items |-> <<>>]}
    \cup { [kind |-> "list", items |-> it] : it \in BSeq(FormItems, MaxFormdata) }
    \cup { [kind |-> "dict", items |-> it] :
            it \in { x \in BSeq(FormItems, MaxFormdata) : DistinctKeys(x) } }

\* clickdata: None, or a dict with an optional 'nr' and attribute criteria.
NoClickdata == [is_none |-> TRUE, nr |-> <<>>, attrs |-> {}]
ClickDatas ==
    { NoClickdata,
      [is_none |-> FALSE, nr |-> <<0>>, attrs |-> {}],
      [is_none |-> FALSE, nr |-> <<-1>>, attrs |-> {}],
      [is_none |-> FALSE, nr |-> <<7>>, attrs |-> {}],
      [is_none |-> FALSE, nr |-> <<7>>, attrs |-> {<<"name", "go">>}],
      [is_none |-> FALSE, nr |-> <<>>, attrs |-> {<<"name", "go">>}],
      [is_none |-> FALSE, nr |-> <<>>, attrs |-> {<<"type", "submit">>}],
      [is_none |-> FALSE, nr |-> <<>>, attrs |-> {<<"name", "go">>, <<"type", "submit">>}] }

InitIn ==
    /\ pc = "call"
    /\ raised = ""
    /\ IdleMw
    /\ IdleGf
    /\ IdleCurl
    /\ form \in BSeq(Elems, MaxElems)
    /\ formdata \in Formdatas
    /\ dont_click \in BOOLEAN
    /\ clickdata \in ClickDatas
    /\ (dont_click => clickdata = NoClickdata)
    /\ values = <<>>

GetInputs ==
    /\ pc = "call"
    /\ raised' = _get_inputs(form, formdata, dont_click, clickdata).raised
    /\ values' = _get_inputs(form, formdata, dont_click, clickdata).values
    /\ pc' = "done"
    /\ UNCHANGED <<mwVars, gfVars, curlVars, form, formdata, dont_click, clickdata>>

NextIn == GetInputs

SpecIn == InitIn /\ [][NextIn]_vars

\* The call returned; the formdata entries whose value is not None; the positions of the
\* list that a given step emitted.
Returned == pc = "done" /\ raised = ""
HasValue(p) == p[2].t # "None"
KeptItems ==
    LET kept == SelectSeq(formdata.items, HasValue)
    IN  [j \in 1..Len(kept) |-> [k |-> kept[j][1], v |-> kept[j][2], src |-> "formdata"]]
FromSrc(s) == { i \in DOMAIN values : values[i].src = s }

\* C4: the list returned ends with exactly the formdata entries whose value is not None,
\* in their given order, entries with the same name all kept; every auto-extracted entry
\* precedes the clickable entry, which precedes every formdata entry; so whether a
\* formdata entry appears does not depend on the form.
C4_FormdataLast ==
    Returned =>
        LET n == Len(values)
            m == Len(KeptItems)
        IN  /\ m <= n
            /\ \A j \in 1..m : values[n - m + j] = KeptItems[j]
            /\ \A i \in 1..(n - m) : values[i].src # "formdata"
            /\ \A i \in FromSrc("input"), j \in FromSrc("clickable") : i < j
            /\ Cardinality(FromSrc("clickable")) <= 1

\* C4's case: the list holds the clickable entry and two formdata entries of one name,
\* and the form has a field of that name, which the formdata entries replace.
C4_Witness ==
    /\ Returned
    /\ FromSrc("clickable") # {}
    /\ \E i, j \in FromSrc("formdata") :
          /\ i < j
          /\ values[i].k = values[j].k
          /\ \E e \in DOMAIN form : IsInput(form[e]) /\ form[e].name = values[i].k

\* C5: no entry of the list returned has an absent or empty name.
C5_NoEmptyName ==
    Returned => \A i \in DOMAIN values : values[i].k # None /\ values[i].k # ""

\* C10: every entry of the list that does not come from formdata carries a name that no
\* formdata entry has (entries with a None value included).
C10_NoCollision ==
    Returned =>
        \A i \in DOMAIN values :
            values[i].src # "formdata" => values[i].k \notin formdata_keys(formdata)

\* C6: with clicking enabled and a clickdata 'nr' that is no position of form.inputs,
\* the call returns and the list has no clickable entry.
C6_BadNrIgnored ==
    (pc = "done" /\ ~dont_click /\ ~clickdata.is_none /\ clickdata.nr # <<>>
        /\ ~HasIndex(SelectSeq(form, IsFormInput), clickdata.nr[1]))
        => raised = "" /\ FromSrc("clickable") = {}

\* The call was made with clicking enabled and a clickdata of attribute criteria only
\* (no 'nr'); the elements of the form that meet every criterion; the entry such an
\* element stands for.
AttrCase == pc = "done" /\ ~dont_click /\ ~clickdata.is_none /\ clickdata.nr = <<>>
Matching ==
    LET Meets(e) == \A p \in clickdata.attrs : Attr(e, p[1]) = p[2]
    IN  SelectSeq(Descendants(form), Meets)
EntryOf(e) ==
    [k |-> e.name, v |-> Str(IF e.value = None THEN "" ELSE e.value), src |-> "clickable"]

\* The outcome the number of matching elements calls for: an error for none or several;
\* for exactly one, a return whose only possible clickable entry is that element's
\* (name, value or ''), present whenever the name is not empty and no formdata entry
\* has it.
ByMatchCount ==
    /\ Len(Matching) # 1 => raised = "ValueError"
    /\ Len(Matching) = 1 =>
          /\ raised = ""
          /\ \A i \in FromSrc("clickable") : values[i] = EntryOf(Matching[1])
          /\ (/\ Matching[1].name # None
              /\ Matching[1].name # ""
              /\ Matching[1].name \notin formdata_keys(formdata))
                => FromSrc("clickable") # {}

\* C11: with clicking enabled and attribute criteria without 'nr', the outcome follows
\* from the number of form elements meeting all criteria alone (one: its entry; none or
\* several: an error), on every form, also one without submit/image/button control.
C11_AttrMatchEveryForm == AttrCase => ByMatchCount

\* What holds of attribute criteria instead: the count decides on a form that has a
\* submit/image/button control; on a form without one the call returns without error
\* and without clickable entry, whatever the criteria match.
AttrMatchWithClickable ==
    AttrCase =>
        IF SelectSeq(form, IsClickable) # <<>>
        THEN ByMatchCount
        ELSE raised = "" /\ FromSrc("clickable") = {}

-----------------------------------------------------------------------------
(* _get_inputs on a form that holds one select                             *)

MaxOptions == 2

\* An option: its value attribute (None when absent), its text, and whether it carries
\* selected / disabled.
Options ==
    { [value |-> v, text |-> t, selected |-> sl, disabled |-> d] :
        v \in {None, "", "x"}, t \in {None, " t"}, sl \in BOOLEAN, d \in BOOLEAN }

Selects ==
    { [El("select", None, "s", None) EXCEPT !.multiple = m, !.options = o] :
        m \in BOOLEAN, o \in BSeq(Options, MaxOptions) }

InitSel ==
    /\ pc = "call"
    /\ raised = ""
    /\ IdleMw
    /\ IdleGf
    /\ IdleCurl
    /\ form \in { <<e>> : e \in Selects }
    /\ formdata = [kind |-> "none", items |-> <<>>]
    /\ dont_click = TRUE
    /\ clickdata = NoClickdata
    /\ values = <<>>

SpecSel == InitSel /\ [][NextIn]_vars

\* C8: a single select with no value set yields the value of its first option, or no
\* entry when it has no options; a multiple select yields the list, in document order,
\* of the values of exactly the options marked selected, the value of an option being
\* its value attribute, or its text when it has no value attribute.
C8_SelectValue ==
    (Returned /\ Len(form) = 1 /\ form[1].tag = "select") =>
        LET e == form[1]
            sel == selected_options(e)
        IN  /\ (~e.multiple /\ ele_value(e).t = "None") =>
                    IF e.options = <<>> THEN values = <<>>
                    ELSE values = <<[k |-> e.name, v |-> Str(OptionValue(e.options[1])),
                                     src |-> "input"]>>
            /\ e.multiple =>
                    values = <<[k |-> e.name,
                                v |-> List([i \in 1..Len(sel) |-> OptionValue(sel[i])]),
                                src |-> "input"]>>

\* The first half of C8 alone holds: single selects without a value.
SingleSelectDefault ==
    (Returned /\ Len(form) = 1 /\ form[1].tag = "select"
        /\ ~form[1].multiple /\ ele_value(form[1]).t = "None") =>
        IF form[1].options = <<>> THEN values = <<>>
        ELSE values = <<[k |-> "s", v |-> Str(OptionValue(form[1].options[1])),
                         src |-> "input"]>>

-----------------------------------------------------------------------------
(* _get_form                                                               *)

MaxNodes == 3

\* A node of the document: its tag, its parent's position (0: the root element, which
\* is no form) and, for a form, its name and id attributes.
NodesAt(i) ==
    { [tag |-> "div", parent |-> p, name |-> None, id |-> None] : p \in {0, i - 1} }
    \cup { [tag |-> "form", parent |-> p, name |-> a[1], id |-> a[2]] :
             p \in {0, i - 1}, a \in {<<None, None>>, <<"f", None>>, <<None, "i">>} }

WellFormed(d) == \A i \in DOMAIN d : d[i] \in NodesAt(i)

Docs ==
    { d \in BSeq(UNION { NodesAt(i) : i \in 1..MaxNodes }, MaxNodes) : WellFormed(d) }

\* Positions 1..n as a sequence.
Positions(n) == [i \in 1..n |-> i]

\* root.xpath('//form'), line 85: the positions of the forms, in document order.
Forms(d) ==
    LET IsForm(i) == d[i].tag = "form"
    IN  SelectSeq(Positions(Len(d)), IsForm)

\* root.xpath(f'//form[@name="{formname}"]'), line 94.
FormsNamed(d, n) ==
    LET Test(i) == d[i].tag = "form" /\ d[i].name # None /\ d[i].name = n
    IN  SelectSeq(Positions(Len(d)), Test)

\* root.xpath(f'//form[@id="{formid}"]'), line 105.
FormsWithId(d, x) ==
    LET Test(i) == d[i].tag = "form" /\ d[i].id # None /\ d[i].id = x
    IN  SelectSeq(Positions(Len(d)), Test)

\* The loop of lines 121-131: from el upwards, the first element whose tag is form;
\* 0 when getparent() runs out.
RECURSIVE FormAncestor(_, _)
FormAncestor(d, el) ==
    IF el = 0 THEN 0
    ELSE IF d[el].tag = "form" THEN el
    ELSE FormAncestor(d, d[el].parent)

Ret(f, c) == [raised |-> "", form |-> f, consulted |-> c]
Raise(e, c) == [raised |-> e, form |-> 0, consulted |-> c]

\* Lines 143-154: forms[formnumber], or None when formnumber is None.
ByNumber(d, nr, c) ==
    IF nr = <<>> THEN Ret(0, c)
    ELSE IF HasIndex(Forms(d), nr[1])
    THEN Ret(Index(Forms(d), nr[1]), c \o <<"formnumber">>)
    ELSE Raise("IndexError", c \o <<"formnumber">>)

\* Lines 115-154.
ByXpath(d, nr, xp, c) ==
    IF xp.is_none THEN ByNumber(d, nr, c)
    ELSE IF xp.nodes # <<>> /\ FormAncestor(d, xp.nodes[1]) # 0
    THEN Ret(FormAncestor(d, xp.nodes[1]), c \o <<"formxpath">>)
    ELSE Raise("ValueError", c \o <<"formxpath">>)

\* Lines 103-154.
ById(d, x, nr, xp, c) ==
    IF x = None THEN ByXpath(d, nr, xp, c)
    ELSE IF FormsWithId(d, x) # <<>>
    THEN Ret(FormsWithId(d, x)[1], c \o <<"formid">>)
    ELSE ByXpath(d, nr, xp, c \o <<"formid">>)

\* Lines 92-154.
ByName(d, n, x, nr, xp) ==
    IF n = None THEN ById(d, x, nr, xp, <<>>)
    ELSE IF FormsNamed(d, n) # <<>>
    THEN Ret(FormsNamed(d, n)[1], <<"formname">>)
    ELSE ById(d, x, nr, xp, <<"formname">>)

\* The same function without the test of lines 86-88.
GetFormUnguarded(d, n, x, nr, xp) == ByName(d, n, x, nr, xp)

\* _get_form, lines 81-154.
_get_form(d, n, x, nr, xp) ==
    IF Forms(d) = <<>> THEN Raise("ValueError", <<>>)
    ELSE ByName(d, n, x, nr, xp)

\* The node sequences a formxpath can select: no node, one node, or two neighbours in
\* document order.
Xpaths(d) ==
    {NoXpath}
    \cup { [is_none |-> FALSE, nodes |-> ns] :
            ns \in {<<>>} \cup { <<i>> : i \in DOMAIN d }
                   \cup { <<i, i + 1>> : i \in DOMAIN d \ {Len(d)} } }

InitGf ==
    /\ pc = "call"
    /\ raised = ""
    /\ IdleMw
    /\ IdleIn
    /\ IdleCurl
    /\ doc \in Docs
    /\ formname \in {None, "f", "g"}
    /\ formid \in {None, "i"}
    /\ formnumber \in {<<>>, <<0>>, <<1>>, <<-1>>}
    /\ formxpath \in Xpaths(doc)
    /\ found = 0
    /\ consulted = <<>>

GetForm ==
    /\ pc = "call"
    /\ raised' = _get_form(doc, formname, formid, formnumber, formxpath).raised
    /\ found' = _get_form(doc, formname, formid, formnumber, formxpath).form
    /\ consulted' = _get_form(doc, formname, formid, formnumber, formxpath).consulted
    /\ pc' = "done"
    /\ UNCHANGED <<mwVars, inVars, curlVars, doc, formname, formid, formnumber, formxpath>>

NextGf == GetForm

SpecGf == InitGf /\ [][NextGf]_vars

\* C7: on a document without a form element _get_form raises ValueError (no form
\* found) for every formname, formid, formnumber and formxpath, formnumber None
\* included, and it evaluates none of them first.
C7_NoFormsNotFound ==
    (pc = "done" /\ Forms(doc) = <<>>)
        => raised = "ValueError" /\ found = 0 /\ consulted = <<>>

\* C7's case: no form in the document, a formname and a formid given, a formxpath that
\* selects a node, formnumber None.
C7_Witness ==
    /\ pc = "done"
    /\ doc # <<>>
    /\ Forms(doc) = <<>>
    /\ formname # None
    /\ formid # None
    /\ ~formxpath.is_none /\ formxpath.nodes # <<>>
    /\ formnumber = <<>>
    /\ raised = "ValueError"

\* The first position of the document that satisfies P, 0 when none does.
FirstThat(P(_)) ==
    IF \E i \in DOMAIN doc : P(i)
    THEN CHOOSE i \in DOMAIN doc : P(i) /\ \A j \in 1..(i - 1) : ~P(j)
    ELSE 0

\* The ancestors of a node, the node included; the nearest of them that is a form (a
\* parent precedes its children, so the nearest is the last in document order), 0 when
\* none is.
RECURSIVE AncestorsOrSelf(_)
AncestorsOrSelf(el) ==
    IF el = 0 THEN {} ELSE {el} \cup AncestorsOrSelf(doc[el].parent)
NearestForm(el) ==
    LET fs == { a \in AncestorsOrSelf(el) : doc[a].tag = "form" }
    IN  IF fs = {} THEN 0 ELSE CHOOSE a \in fs : \A b \in fs : b <= a

\* C12: on a document with a form, the steps are decided in the order formname, formid,
\* formxpath, formnumber, the first applicable one being final: the first form with
\* that name if formname is given and there is one; else the first form with that id
\* if formid is given and there is one; else, if formxpath is given, the nearest
\* ancestor-or-self form of the first node selected, ValueError without a look at
\* formnumber when no node is selected or none of them is a form; else the form at
\* position formnumber in document order when 0 <= formnumber < number of forms,
\* IndexError for every other formnumber.
C12_SelectionOrder ==
    (pc = "done" /\ Forms(doc) # <<>>) =>
        LET Named(i) == doc[i].tag = "form" /\ doc[i].name = formname
            WithId(i) == doc[i].tag = "form" /\ doc[i].id = formid
            n == Len(Forms(doc))
        IN  IF formname # None /\ FirstThat(Named) # 0
            THEN raised = "" /\ found = FirstThat(Named)
            ELSE IF formid # None /\ FirstThat(WithId) # 0
            THEN raised = "" /\ found = FirstThat(WithId)
            ELSE IF ~formxpath.is_none
            THEN IF formxpath.nodes # <<>> /\ NearestForm(formxpath.nodes[1]) # 0
                 THEN raised = "" /\ found = NearestForm(formxpath.nodes[1])
                 ELSE /\ raised = "ValueError"
                      /\ \A i \in DOMAIN consulted : consulted[i] # "formnumber"
            ELSE IF formnumber = <<>> THEN TRUE
            ELSE IF 0 <= formnumber[1] /\ formnumber[1] < n
            THEN raised = "" /\ found = Forms(doc)[formnumber[1] + 1]
            ELSE raised = "IndexError"

\* What holds of formnumber instead: a negative formnumber counts from the last form
\* (-1 is the last one) and raises IndexError only below minus the number of forms.
NegativeFormnumber ==
    (/\ pc = "done"
     /\ Forms(doc) # <<>>
     /\ consulted # <<>>
     /\ consulted[Len(consulted)] = "formnumber"
     /\ formnumber[1] < 0)
        => IF -formnumber[1] <= Len(Forms(doc))
           THEN raised = "" /\ found = Forms(doc)[Len(Forms(doc)) + formnumber[1] + 1]
           ELSE raised = "IndexError"

-----------------------------------------------------------------------------
(* curl_to_request_kwargs                                                  *)

MaxItems == 3

\* The options of curl_parser, lines 17-35.
HeaderOpts == {"-H", "--header"}
MethodOpts == {"-X", "--request"}
DataOpts == {"-d", "--data", "--data-raw"}
AuthOpts == {"-u", "--user"}
ValueOpts == HeaderOpts \cup MethodOpts \cup DataOpts \cup AuthOpts
FlagOpts == {"--compressed", "-s", "--silent", "-v", "--verbose", "-#", "--progress-bar"}
\* Tokens that start with "-" and are no option of the parser.
UnknownOpts == {"--foo"}
Dashed == ValueOpts \cup FlagOpts \cup UnknownOpts

\* The Namespace parse_known_args fills: every dest starts as None; extras are the
\* tokens it did not recognize; error is the parser's error() having been called.
EmptyArgs ==
    [url |-> None, headers |-> <<>>, method |-> None, data |-> None, auth |-> None,
     extras |-> <<>>, error |-> FALSE]

\* curl_parser.parse_known_args, line 56: an option with a value takes the next token,
\* which must exist and must not look like an option; a repeated -X / -d / -u keeps the
\* last value, -H appends; the first positional is the url, further ones are extras.
RECURSIVE Parse(_, _)
Parse(toks, a) ==
    IF toks = <<>> THEN (IF a.url = None THEN [a EXCEPT !.error = TRUE] ELSE a)
    ELSE LET t == Head(toks)
             rest == Tail(toks)
         IN  IF t \in ValueOpts
             THEN IF rest = <<>> \/ Head(rest) \in Dashed
                  THEN [a EXCEPT !.error = TRUE]
                  ELSE LET v == Head(rest)
                       IN  Parse(Tail(rest),
                                 CASE t \in HeaderOpts ->
                                        [a EXCEPT !.headers = Append(@, v)]
                                   [] t \in MethodOpts -> [a EXCEPT !.method = v]
                                   [] t \in DataOpts -> [a EXCEPT !.data = v]
                                   [] OTHER -> [a EXCEPT !.auth = v])
             ELSE IF t \in FlagOpts THEN Parse(rest, a)
             ELSE IF t \in UnknownOpts
             THEN Parse(rest, [a EXCEPT !.extras = Append(@, t)])
             ELSE IF a.url = None THEN Parse(rest, [a EXCEPT !.url = t])
             ELSE Parse(rest, [a EXCEPT !.extras = Append(@, t)])

\* str.upper(), on the method values used here.
Upper(x) == IF x = "post" THEN "POST" ELSE x

\* urlparse(url).scheme is non-empty, line 75.
HasScheme(url) == url = "http://x.test"

\* 'http://' + url, line 77.
WithHttp(url) == IF url = "example.com" THEN "http://example.com" ELSE url

\* header.split(':', 1) with both parts stripped, lines 101-103.
HeaderSplit(h) == IF h = "A: b" THEN <<"A", "b">> ELSE <<"cookie", "a=1">>

\* name.title() == 'Cookie', line 104.
IsCookie(name) == name = "cookie"

\* Lines 100-111: the headers that are no Cookie header, in order.
RECURSIVE PlainHeaders(_)
PlainHeaders(hs) ==
    IF hs = <<>> THEN <<>>
    ELSE (IF IsCookie(HeaderSplit(Head(hs))[1]) THEN <<>> ELSE <<HeaderSplit(Head(hs))>>)
         \o PlainHeaders(Tail(hs))

\* Lines 104-108: the cookies of the Cookie headers (SimpleCookie of "a=1").
Cookies(hs) ==
    IF \E i \in DOMAIN hs : IsCookie(HeaderSplit(hs[i])[1]) THEN <<<<"a", "1">>>> ELSE <<>>

\* Lines 113-116: the Authorization header of -u user:password.
AuthHeaders(auth) ==
    IF auth # None /\ auth # "" THEN <<<<"Authorization", "Basic dTpw">>>> ELSE <<>>

\* Python truth of an optional string: neither None nor ''.
Truthy(x) == x # None /\ x # ""

\* curl_to_request_kwargs, lines 38-145: what it raises, whether it warned, its dict.
curl_to_request_kwargs(args, ignore) ==
    LET a == Parse(Tail(args), EmptyArgs)
        url == IF HasScheme(a.url) THEN a.url ELSE WithHttp(a.url)
        method == IF Truthy(a.method) THEN a.method ELSE "GET"
    IN  IF args[1] # "curl" THEN [raised |-> "ValueError", result |-> NoResult]
        ELSE IF a.error THEN [raised |-> "ValueError", result |-> NoResult]
        ELSE IF a.extras # <<>> /\ ~ignore
        THEN [raised |-> "ValueError", result |-> NoResult]
        ELSE [raised |-> "",
              result |->
                [method |-> IF Truthy(a.data) /\ ~Truthy(a.method) THEN "POST"
                            ELSE Upper(method),
                 url |-> url,
                 headers |-> PlainHeaders(a.headers) \o AuthHeaders(a.auth),
                 cookies |-> Cookies(a.headers),
                 body |-> IF Truthy(a.data) THEN a.data ELSE Absent]]

\* The pieces commands are built from: an option with its value, a flag, a url, an
\* unknown option, and -d with its value missing.
Items ==
    { <<"-X", "post">>, <<"--request", "GET">>,
      <<"-d", "a=1">>, <<"--data-raw", "">>,
      <<"-H", "A: b">>, <<"-H", "cookie: a=1">>, <<"-u", "u:p">>,
      <<"-s">>, <<"--foo">>, <<"example.com">>, <<"http://x.test">>, <<"-d">> }

RECURSIVE Flatten(_)
Flatten(ss) == IF ss = <<>> THEN <<>> ELSE Head(ss) \o Flatten(Tail(ss))

InitCurl ==
    /\ pc = "call"
    /\ raised = ""
    /\ IdleMw
    /\ IdleIn
    /\ IdleGf
    /\ curl_args \in { <<first>> \o Flatten(items) :
                        first \in {"curl", "wget"}, items \in BSeq(Items, MaxItems) }
    /\ ignore_unknown_options \in BOOLEAN
    /\ result = NoResult

CurlToRequestKwargs ==
    /\ pc = "call"
    /\ raised' = curl_to_request_kwargs(curl_args, ignore_unknown_options).raised
    /\ result' = curl_to_request_kwargs(curl_args, ignore_unknown_options).result
    /\ pc' = "done"
    /\ UNCHANGED <<mwVars, inVars, gfVars, curl_args, ignore_unknown_options>>

NextCurl == CurlToRequestKwargs

SpecCurl == InitCurl /\ [][NextCurl]_vars

\* C9: for an accepted command the method of the result is the upper-cased value of
\* -X/--request when that option is given; otherwise POST exactly when a value was given
\* with -d/--data/--data-raw, the empty string included; otherwise GET.
C9_Method ==
    (pc = "done" /\ raised = "") =>
        LET a == Parse(Tail(curl_args), EmptyArgs)
        IN  result.method =
                IF a.method # None THEN Upper(a.method)
                ELSE IF a.data # None THEN "POST"
                ELSE "GET"
====
